---- MODULE Spec2Model ----
(***************************************************************************)
(* Merchant document pipeline: the per-document stage sequence             *)
(* (OCR -> field extraction -> validation -> submission), the batch loops  *)
(* (DocumentPipeline.process_directory, DocumentProcessorWorker.run) with  *)
(* progress reporting and cooperative cancellation, and the validation     *)
(* rules of DocumentValidator.                                             *)
(*                                                                         *)
(* Python strings are sequences of one-character strings, dictionaries are *)
(* functions from key strings (a missing key is a key outside DOMAIN), and *)
(* confidence scores are integers counting tenths (0.7 is 7).              *)
(***************************************************************************)
EXTENDS Integers, Sequences, FiniteSets, TLC

\* ------------------------------------------------------------------ bounds
\* Largest number of files in one batch.
MaxFiles == 3
\* Largest number of issues a record carries into validate_document.
MaxExisting == 1
\* Largest number of validate_document calls on one record.
MaxPasses == 2
\* Largest number of paragraphs of a text given to _chunk_text.
MaxParagraphs == 3
\* Largest word budget tried below the default of 512.
MaxBudget == 3
\* Longest raw completion given to _clean_response.
MaxCompletionLen == 4

\* -------------------------------------------------------------- characters
LowerCase == <<"a", "b", "c", "d", "e", "f", "g", "h", "i", "j", "k", "l", "m", "n", "o", "p", "q", "r", "s", "t", "u", "v", "w", "x", "y", "z">>
UpperCase == <<"A", "B", "C", "D", "E", "F", "G", "H", "I", "J", "K", "L", "M", "N", "O", "P", "Q", "R", "S", "T", "U", "V", "W", "X", "Y", "Z">>
Digits == {"0", "1", "2", "3", "4", "5", "6", "7", "8", "9"}
Letters == {LowerCase[i] : i \in 1..26} \cup {UpperCase[i] : i \in 1..26}
\* str.strip() and the regex class \s: blank, tab, newline, carriage return.
Whitespace == {" ", "\t", "\n", "\r"}

IsDigit(c) == c \in Digits

\* str.upper() of one character.
UpperChar(c) ==
  IF \E i \in 1..26 : LowerCase[i] = c
    THEN UpperCase[CHOOSE i \in 1..26 : LowerCase[i] = c]
    ELSE c

Upper(s) == [i \in 1..Len(s) |-> UpperChar(s[i])]

\* str.strip(): drop leading and trailing whitespace.
Strip(s) ==
  LET keep == {i \in 1..Len(s) : s[i] \notin Whitespace}
  IN  IF keep = {} THEN <<>>
      ELSE LET lo == CHOOSE i \in keep : \A j \in keep : i <= j
               hi == CHOOSE i \in keep : \A j \in keep : j <= i
           IN  SubSeq(s, lo, hi)

\* re.sub(r'[^\d]', '', s): keep the digits only.
DigitsOnly(s) == SelectSeq(s, IsDigit)

IsDigitOrDot(c) == c \in Digits \/ c = "."

\* dict.get(key, default)
Get(d, k, default) == IF k \in DOMAIN d THEN d[k] ELSE default

\* Python truthiness of a str or list: non-empty.
Truthy(s) == s # <<>>

\* --------------------------------------------------------------- validator
\* Mutant: the nine digits are counted without removing the separators.
ValidateEinSsn_NoCleaning(ein_ssn) ==
  /\ Truthy(ein_ssn)
  /\ Len(ein_ssn) = 9
  /\ \A k \in 1..Len(ein_ssn) : IsDigit(ein_ssn[k])

\* DocumentValidator._validate_ein_ssn
ValidateEinSsn(ein_ssn) ==
  /\ Truthy(ein_ssn)
  /\ Len(DigitsOnly(ein_ssn)) = 9

\* Mutant: a record without ZIP code is accepted.
ValidateZip_EmptyAllowed(zip_code) ==
  \/ ~Truthy(zip_code)
  \/ Len(DigitsOnly(zip_code)) = 5

\* DocumentValidator._validate_zip
ValidateZip(zip_code) ==
  /\ Truthy(zip_code)
  /\ Len(DigitsOnly(zip_code)) = 5

\* float(clean_amount) for a string of digits and dots: it parses when there
\* is at least one digit and at most one dot.
FloatParses(clean) ==
  /\ \E i \in 1..Len(clean) : clean[i] \in Digits
  /\ Cardinality({i \in 1..Len(clean) : clean[i] = "."}) <= 1

\* DocumentValidator._validate_amount
ValidateAmount(amount) ==
  IF ~Truthy(amount) THEN TRUE
  ELSE LET clean_amount == SelectSeq(amount, IsDigitOrDot)
       IN  IF ~Truthy(clean_amount) THEN FALSE ELSE FloatParses(clean_amount)

\* DocumentValidator._validate_phone
ValidatePhone(phone) ==
  /\ Truthy(phone)
  /\ Len(DigitsOnly(phone)) = 10

EmailLocalChars == Letters \cup Digits \cup {".", "_", "%", "+", "-"}
EmailDomainChars == Letters \cup Digits \cup {".", "-"}

\* re.match(r'^[a-zA-Z0-9._%+-]+@[a-zA-Z0-9.-]+\.[a-zA-Z]{2,}$', e)
EmailMatches(e) ==
  \E at \in 1..Len(e) : \E dot \in 1..Len(e) :
    /\ e[at] = "@"
    /\ e[dot] = "."
    /\ at > 1
    /\ \A i \in 1..(at - 1) : e[i] \in EmailLocalChars
    /\ dot > at + 1
    /\ \A i \in (at + 1)..(dot - 1) : e[i] \in EmailDomainChars
    /\ Len(e) - dot >= 2
    /\ \A i \in (dot + 1)..Len(e) : e[i] \in Letters

\* DocumentValidator._validate_email
ValidateEmail(email) ==
  /\ Truthy(email)
  /\ EmailMatches(Strip(email))

valid_states ==
  {
      <<"A","L">>, <<"A","K">>, <<"A","Z">>, <<"A","R">>, <<"C","A">>, <<"C","O">>,
      <<"C","T">>, <<"D","E">>, <<"F","L">>, <<"G","A">>, <<"H","I">>, <<"I","D">>,
      <<"I","L">>, <<"I","N">>, <<"I","A">>, <<"K","S">>, <<"K","Y">>, <<"L","A">>,
      <<"M","E">>, <<"M","D">>, <<"M","A">>, <<"M","I">>, <<"M","N">>, <<"M","S">>,
      <<"M","O">>, <<"M","T">>, <<"N","E">>, <<"N","V">>, <<"N","H">>, <<"N","J">>,
      <<"N","M">>, <<"N","Y">>, <<"N","C">>, <<"N","D">>, <<"O","H">>, <<"O","K">>,
      <<"O","R">>, <<"P","A">>, <<"R","I">>, <<"S","C">>, <<"S","D">>, <<"T","N">>,
      <<"T","X">>, <<"U","T">>, <<"V","T">>, <<"V","A">>, <<"W","A">>, <<"W","V">>,
      <<"W","I">>, <<"W","Y">>, <<"D","C">>
  }

\* DocumentValidator._validate_state
ValidateState(state) ==
  /\ Truthy(state)
  /\ Strip(Upper(state)) \in valid_states

\* dict[key] = value
Put(d, k, v) == [x \in (DOMAIN d) \cup {k} |-> IF x = k THEN v ELSE d[x]]

Min(a, b) == IF a <= b THEN a ELSE b
Max(a, b) == IF a >= b THEN a ELSE b

\* An issue message: the rule's fixed wording and the offending value that the
\* f-string embeds.
Issue(rule, value) == [rule |-> rule, value |-> value]

IssueIf(cond, issue) == IF cond THEN <<issue>> ELSE <<>>

\* Mutant: the completeness check never finds a filled address field.
AnyValue_Never(address) == FALSE

\* any(address.values())
AnyValue(address) == \E k \in DOMAIN address : Truthy(address[k])

\* Mutant: one filled field is enough for the address to count as complete.
AllAddressFields_OneSuffices(address) ==
  \E k \in {"street", "city", "state", "zip"} : Truthy(Get(address, k, <<>>))

\* all([address.get('street'), address.get('city'), address.get('state'),
\*      address.get('zip')])
AllAddressFields(address) ==
  \A k \in {"street", "city", "state", "zip"} : Truthy(Get(address, k, <<>>))

\* The rule checks of validate_document, in the order the code runs them.
ValidationIssues(parsed_data) ==
  LET ein_ssn  == Get(parsed_data, "ein_or_ssn", <<>>)
      address  == Get(parsed_data, "address", <<>>)
      contact  == Get(parsed_data, "contact_info", <<>>)
      zip_code == Get(address, "zip", <<>>)
      amount   == Get(parsed_data, "requested_amount", <<>>)
      phone    == Get(contact, "phone", <<>>)
      email    == Get(contact, "email", <<>>)
      state    == Get(address, "state", <<>>)
  IN  IssueIf(~ValidateEinSsn(ein_ssn), Issue("Invalid EIN/SSN format", ein_ssn))
      \o IssueIf(~ValidateZip(zip_code), Issue("Invalid ZIP code", zip_code))
      \o IssueIf(Truthy(amount) /\ ~ValidateAmount(amount),
                 Issue("Invalid requested amount", amount))
      \o IssueIf(Truthy(phone) /\ ~ValidatePhone(phone),
                 Issue("Invalid phone format", phone))
      \o IssueIf(Truthy(email) /\ ~ValidateEmail(email),
                 Issue("Invalid email format", email))
      \o IssueIf(Truthy(state) /\ ~ValidateState(state),
                 Issue("Invalid state", state))
      \o IssueIf(~Truthy(Strip(Get(parsed_data, "merchant_name", <<>>))),
                 Issue("Missing required field", <<"merchant_name">>))
      \o IssueIf(~Truthy(Strip(Get(parsed_data, "document_type", <<>>))),
                 Issue("Missing required field", <<"document_type">>))
      \o IssueIf(AnyValue(address) /\ ~AllAddressFields(address),
                 Issue("Incomplete address information", <<>>))

\* Mutant: the issues of this pass are put in front of the existing ones.
AllIssues_NewFirst(existing_issues, validation_issues) ==
  validation_issues \o existing_issues

\* all_issues = existing_issues + validation_issues
AllIssues(existing_issues, validation_issues) ==
  existing_issues \o validation_issues

\* Mutant: the two outcomes of the conditional are swapped.
ValidationStatus_Inverted(validation_issues) ==
  IF validation_issues = <<>> THEN "failed" ELSE "passed"

\* parsed_data['validation_status']
ValidationStatus(validation_issues) ==
  IF validation_issues = <<>> THEN "passed" ELSE "failed"

\* Mutant: review is asked for only from the second issue on.
RequiresHumanReview_OffByOne(all_issues) == Len(all_issues) > 1

\* parsed_data['requires_human_review']
RequiresHumanReview(all_issues) == Len(all_issues) > 0

\* Mutant: the penalty grows with every issue, without the cap of 0.4.
PenalisedConfidence_NoCap(current_confidence, n) ==
  Max(current_confidence - 2 * n, 1)

\* Mutant: the floor of the penalised confidence is 0.5.
PenalisedConfidence_FloorHalf(current_confidence, n) ==
  Max(current_confidence - Min(2 * n, 4), 5)

\* The confidence after the penalty, in tenths: max(c - min(0.2 * n, 0.4), 0.1).
PenalisedConfidence(current_confidence, n) ==
  Max(current_confidence - Min(2 * n, 4), 1)

\* Mutant: the time of the call is also written into the confidence score.
ValidationTimestamp_IntoConfidence(d, now) ==
  Put(Put(d, "validation_timestamp", now), "confidence_score", now)

\* parsed_data['validation_timestamp'] = datetime.now().isoformat()
ValidationTimestamp(d, now) == Put(d, "validation_timestamp", now)

\* DocumentValidator.validate_document: the dictionary after the call.  The
\* code updates parsed_data in place and returns that same object.
ValidateDocument(parsed_data, now) ==
  LET validation_issues == ValidationIssues(parsed_data)
      existing_issues   == Get(parsed_data, "flagged_issues", <<>>)
      all_issues        == AllIssues(existing_issues, validation_issues)
      d1 == Put(parsed_data, "flagged_issues", all_issues)
      d2 == Put(d1, "validation_status", ValidationStatus(validation_issues))
      d3 == Put(d2, "requires_human_review", RequiresHumanReview(all_issues))
      d4 == ValidationTimestamp(d3, now)
  IN  IF validation_issues # <<>>
        THEN Put(d4, "confidence_score",
                 PenalisedConfidence(Get(parsed_data, "confidence_score", 5),
                                     Len(validation_issues)))
        ELSE d4

\* ------------------------------------------------------------ field extractor
\* The 14 fields parse_document asks the generator for, in request order.
direct_fields == <<"merchant_name", "ein_or_ssn", "document_type", "requested_amount">>
address_fields == <<"street", "city", "state", "zip">>
contact_fields == <<"phone", "email">>
business_fields ==
  <<"business_type", "annual_revenue", "years_in_business", "processing_volume">>

Range(seq) == {seq[k] : k \in 1..Len(seq)}

\* re.sub(r'\s+', ' ', text): every run of whitespace becomes one blank.
CollapseWhitespace(text) ==
  LET keep(k) == \/ text[k] \notin Whitespace
                 \/ k = 1
                 \/ text[k - 1] \notin Whitespace
      kept == SelectSeq([k \in 1..Len(text) |-> k], keep)
  IN  [n \in 1..Len(kept) |->
         IF text[kept[n]] \in Whitespace THEN " " ELSE text[kept[n]]]

\* text.split(":")[-1]: what follows the last colon.
AfterLastColon(text) ==
  LET colons == {k \in 1..Len(text) : text[k] = ":"}
  IN  IF colons = {} THEN text
      ELSE SubSeq(text, (CHOOSE k \in colons : \A j \in colons : j <= k) + 1, Len(text))

\* LLMParser._clean_response
CleanResponse(text) == CollapseWhitespace(Strip(AfterLastColon(text)))

\* The value parse_document stores for one generator response: the cleaned
\* generated text of a non-empty response list, else the field's default.
FieldValue(response, default) ==
  IF response.kind = "text" THEN CleanResponse(response.text) ELSE default

\* LLMParser.parse_document for generator responses that all return:
\* responses maps each field to [kind |-> "text", text |-> ...] or to
\* [kind |-> "empty"] (an empty response list).
StructuredData(responses, filename) ==
  [merchant_name    |-> FieldValue(responses["merchant_name"], <<>>),
   ein_or_ssn       |-> FieldValue(responses["ein_or_ssn"], <<>>),
   document_type    |-> FieldValue(responses["document_type"], <<>>),
   address          |-> [k \in Range(address_fields) |-> FieldValue(responses[k], <<>>)],
   contact_info     |-> [k \in Range(contact_fields) |-> FieldValue(responses[k], <<>>)],
   business_info    |-> [k \in Range(business_fields) |-> FieldValue(responses[k], <<>>)],
   requested_amount |-> FieldValue(responses["requested_amount"], <<>>),
   source_file      |-> filename,
   confidence_score |-> 7,
   flagged_issues   |-> <<>>]

AllFields ==
  Range(direct_fields) \cup Range(address_fields) \cup Range(contact_fields)
    \cup Range(business_fields)

\* LLMParser.parse_document: any exception of a generator call is logged and
\* raised again.
ParseDocument(responses, filename) ==
  IF \E f \in AllFields : responses[f].kind = "raise"
    THEN [kind |-> "raise", error |-> "LLM backend failure"]
    ELSE [kind |-> "return", value |-> StructuredData(responses, filename)]

\* The order in which parse_document makes its 14 generator calls.
FieldOrder == direct_fields \o address_fields \o contact_fields \o business_fields

\* The fields parse_document has asked the generator for when it ends: all of
\* them, or those up to the first call that raised.
RequestedFields(responses) ==
  LET raising == {k \in 1..Len(FieldOrder) : responses[FieldOrder[k]].kind = "raise"}
  IN  IF raising = {} THEN FieldOrder
      ELSE SubSeq(FieldOrder, 1, CHOOSE k \in raising : \A j \in raising : k <= j)

RECURSIVE SplitParagraphs(_)
\* text.split('\n\n'): cut at every blank-line separator, scanning from the
\* left; a text without separator is one paragraph.
SplitParagraphs(text) ==
  LET seps == {k \in 1..(Len(text) - 1) : text[k] = "\n" /\ text[k + 1] = "\n"}
  IN  IF seps = {} THEN <<text>>
      ELSE LET first == CHOOSE k \in seps : \A j \in seps : k <= j
           IN  <<SubSeq(text, 1, first - 1)>>
                 \o SplitParagraphs(SubSeq(text, first + 2, Len(text)))

\* len(para.split()): the number of maximal runs of non-whitespace.
WordCount(para) ==
  Cardinality({k \in 1..Len(para) :
                 /\ para[k] \notin Whitespace
                 /\ k = 1 \/ para[k - 1] \in Whitespace})

RECURSIVE JoinWithSpace(_)
\* ' '.join(current_chunk)
JoinWithSpace(parts) ==
  IF parts = <<>> THEN <<>>
  ELSE IF Len(parts) = 1 THEN parts[1]
  ELSE parts[1] \o <<" ">> \o JoinWithSpace(Tail(parts))

\* Mutant: the budget is never found exceeded.
Overflows_Never(current_length, para_length, max_length) == FALSE

\* if current_length + para_length > max_length
Overflows(current_length, para_length, max_length) ==
  current_length + para_length > max_length

RECURSIVE ChunkLoop(_, _, _, _, _)
\* The loop of _chunk_text over the paragraphs that are left, and the final
\* append of a non-empty current_chunk.  The result lists, chunk by chunk,
\* the paragraphs that were joined into it.
ChunkLoop(paragraphs, chunks, current_chunk, current_length, max_length) ==
  IF paragraphs = <<>>
    THEN IF current_chunk # <<>> THEN Append(chunks, current_chunk) ELSE chunks
    ELSE LET para        == Head(paragraphs)
             para_length == WordCount(para)
         IN  IF Overflows(current_length, para_length, max_length)
               THEN ChunkLoop(Tail(paragraphs), Append(chunks, current_chunk),
                              <<para>>, para_length, max_length)
               ELSE ChunkLoop(Tail(paragraphs), chunks, Append(current_chunk, para),
                              current_length + para_length, max_length)

\* The paragraphs of each chunk _chunk_text builds.
ChunkParagraphs(text, max_length) ==
  ChunkLoop(SplitParagraphs(text), <<>>, <<>>, 0, max_length)

\* LLMParser._chunk_text
ChunkText(text, max_length) ==
  LET groups == ChunkParagraphs(text, max_length)
  IN  [k \in 1..Len(groups) |-> JoinWithSpace(groups[k])]

\* ------------------------------------------------------------------ submitter
\* Mutant: the mock CRM does not look at the validation status.
MockCrmSubmit_NoValidationCheck(parsed_data, lucky, now) ==
  IF Get(parsed_data, "confidence_score", 5) < 3
    THEN [status |-> "pending_review",
          reason |-> "Low confidence score requires manual review",
          timestamp |-> now]
  ELSE IF lucky
    THEN [status |-> "accepted", submission_time |-> now]
  ELSE [status |-> "failed", reason |-> "CRM system temporarily unavailable",
        timestamp |-> now, retry_suggested |-> TRUE]

\* CRMSubmitter._mock_crm_submit; lucky is random.random() < 0.9.
MockCrmSubmit(parsed_data, lucky, now) ==
  IF Get(parsed_data, "validation_status", <<>>) = "failed"
    THEN [status |-> "rejected", reason |-> "Document failed validation checks",
          timestamp |-> now]
  ELSE IF Get(parsed_data, "confidence_score", 5) < 3
    THEN [status |-> "pending_review",
          reason |-> "Low confidence score requires manual review",
          timestamp |-> now]
  ELSE IF lucky
    THEN [status |-> "accepted", submission_time |-> now]
  ELSE [status |-> "failed", reason |-> "CRM system temporarily unavailable",
        timestamp |-> now, retry_suggested |-> TRUE]

\* The entry CRMSubmitter._log_submission writes for one attempt.
LogEntry(parsed_data, result, now) ==
  [timestamp         |-> now,
   source_file       |-> Get(parsed_data, "source_file", <<>>),
   validation_status |-> Get(parsed_data, "validation_status", <<>>),
   confidence_score  |-> Get(parsed_data, "confidence_score", 0),
   submission_result |-> result]

\* Mutant: the journal is opened for writing, not for appending.
LogSubmission_Truncates(log, entry, writable) ==
  IF writable THEN <<entry>> ELSE log

\* CRMSubmitter._log_submission: crm.log after the attempt to append the
\* entry; a failure to write is logged and swallowed.
LogSubmission(log, entry, writable) ==
  IF writable THEN Append(log, entry) ELSE log

\* CRMSubmitter.submit_document: the value handed back and the journal entry.
\* json_ok is whether _generate_json_file could write its file.
SubmitDocument(parsed_data, json_ok, lucky, now) ==
  IF json_ok
    THEN LET submission_result == MockCrmSubmit(parsed_data, lucky, now)
         IN  [value |-> [status |-> "success", json_file |-> "json",
                         crm_response |-> submission_result],
              entry |-> LogEntry(parsed_data, submission_result, now)]
    ELSE LET failure == [status |-> "failed", error |-> "cannot write JSON file"]
         IN  [value |-> failure, entry |-> LogEntry(parsed_data, failure, now)]

\* ------------------------------------------------------------------- pipeline
\* os.path.basename(file_path)
Basename(file_path) == file_path.name

\* Mutant: a submission that did not succeed marks the document as failed.
FinalResult_FailedSubmissionFatal(validated_data, submission_result, elapsed) ==
  Put(Put(Put(validated_data, "submission_result", submission_result),
          "processing_status",
          IF submission_result.status = "success" THEN "completed" ELSE "failed"),
      "processing_time_seconds", elapsed)

\* The result process_single_document builds on success.
FinalResult(validated_data, submission_result, elapsed) ==
  Put(Put(Put(validated_data, "submission_result", submission_result),
          "processing_status", "completed"),
      "processing_time_seconds", elapsed)

\* Mutant: the except branch logs the exception and raises it again.
HandleException_Reraise(filename, error_msg, start, now) ==
  [kind |-> "raise", error |-> error_msg]

\* The except branch of process_single_document: the exception becomes a
\* failed result that is returned.
HandleException(filename, error_msg, start, now) ==
  [kind  |-> "return",
   value |-> [source_file             |-> filename,
              error                   |-> error_msg,
              processing_status       |-> "failed",
              processing_timestamp    |-> now,
              processing_time_seconds |-> now - start]]

\* The except branch of the loop body of process_directory.
DirectoryErrorDocument(file_path, error_msg, now) ==
  [source_file          |-> Basename(file_path),
   error                |-> error_msg,
   processing_status    |-> "failed",
   processing_timestamp |-> now]

\* Mutant: the report counts from 1.
ProgressReport_OneBased(idx, total) == [current |-> idx + 1, total |-> total]

\* The progress report of loop iteration idx: (current, total).
ProgressReport(idx, total) == [current |-> idx, total |-> total]

\* Mutant: the emptiness test without strip().
IsBlank_NoStrip(extracted_text) == extracted_text = <<>>

\* if not extracted_text.strip()
IsBlank(extracted_text) == Strip(extracted_text) = <<>>

\* Mutant: the parsed record goes to submission unvalidated.
NextStage_SkipValidation(stage) ==
  CASE stage = "ocr"      -> "llm"
    [] stage = "llm"      -> "submit"
    [] stage = "validate" -> "submit"
    [] stage = "submit"   -> "append"

\* The order of the steps inside process_single_document's try block.
NextStage(stage) ==
  CASE stage = "ocr"      -> "llm"
    [] stage = "llm"      -> "validate"
    [] stage = "validate" -> "submit"
    [] stage = "submit"   -> "append"

\* The local variable handed from one step to the next.
Local(kind, value) == [kind |-> kind, value |-> value]

supported_extensions == {".pdf", ".png", ".jpg", ".jpeg"}

\* The files process_directory keeps from os.listdir.
SupportedFiles(listing) ==
  SelectSeq(listing, LAMBDA f : f.ext \in supported_extensions)

\* ----------------------------------------------------------------- statistics
RECURSIVE SumSeq(_)
\* sum(...) over a list of numbers
SumSeq(numbers) ==
  IF numbers = <<>> THEN 0 ELSE Head(numbers) + SumSeq(Tail(numbers))

\* a / b for a float result: the fraction, unreduced.
Ratio(a, b) == [num |-> a, den |-> b]

\* DocumentValidator.get_validation_summary, without its common_issues
\* ranking; {} for an empty list.
ValidationSummary(docs) ==
  LET total_docs == Len(docs)
      passed == Len(SelectSeq(docs, LAMBDA doc :
                              Get(doc, "validation_status", <<>>) = "passed"))
      needs_review == Len(SelectSeq(docs, LAMBDA doc :
                                    Get(doc, "requires_human_review", FALSE)))
      confidences == [k \in 1..total_docs |-> Get(docs[k], "confidence_score", 0)]
  IN  IF total_docs = 0 THEN <<>>
      ELSE [total_documents       |-> total_docs,
            validation_passed     |-> passed,
            validation_failed     |-> total_docs - passed,
            requires_human_review |-> needs_review,
            pass_rate             |-> Ratio(passed, total_docs),
            average_confidence    |-> Ratio(SumSeq(confidences), total_docs)]

\* CRMSubmitter.get_submission_stats over the lines of crm.log.
SubmissionStats(log) ==
  LET status(entry) == entry.submission_result.status
      known == {"accepted", "rejected", "pending_review"}
  IN  [total    |-> Len(log),
       accepted |-> Len(SelectSeq(log, LAMBDA e : status(e) = "accepted")),
       rejected |-> Len(SelectSeq(log, LAMBDA e : status(e) = "rejected")),
       pending  |-> Len(SelectSeq(log, LAMBDA e : status(e) = "pending_review")),
       failed   |-> Len(SelectSeq(log, LAMBDA e : status(e) \notin known))]

\* Mutant: the validation summary is taken over all results.
CompletedDocuments_All(docs) == docs

\* [doc for doc in processed_documents
\*  if doc.get('processing_status') == 'completed']
CompletedDocuments(docs) ==
  SelectSeq(docs, LAMBDA doc : Get(doc, "processing_status", <<>>) = "completed")

\* DocumentPipeline.get_processing_statistics; {} for an empty list.
ProcessingStatistics(docs, log) ==
  LET total      == Len(docs)
      successful == Len(SelectSeq(docs, LAMBDA doc :
                                  Get(doc, "processing_status", <<>>) = "completed"))
      times      == [k \in 1..total |-> Get(docs[k], "processing_time_seconds", 0)]
  IN  IF total = 0 THEN <<>>
      ELSE [processing |-> [total_documents         |-> total,
                            successful              |-> successful,
                            failed                  |-> total - successful,
                            success_rate            |-> Ratio(successful, total),
                            average_processing_time |-> Ratio(SumSeq(times), total)],
            validation |-> ValidationSummary(CompletedDocuments(docs)),
            submission |-> SubmissionStats(log)]

\* --------------------------------------------------------------------- inputs
\* What the OCR collaborator can hand back: a text, or an exception.
OcrOutcomes ==
  {[kind |-> "raise", error |-> "OCR failure"],
   [kind |-> "return", value |-> <<>>],
   [kind |-> "return", value |-> <<" ", "\n">>],
   [kind |-> "return", value |-> <<"A", "c", "m", "e">>]}

Text(t) == [kind |-> "text", text |-> t]
NoResponse == [kind |-> "empty"]

\* Generator responses of a document every rule accepts.
GoodResponses ==
  [f \in AllFields |->
     CASE f = "merchant_name" -> Text(<<"N", "a", "m", "e", ":", " ", "A", "c", "m", "e">>)
       [] f = "ein_or_ssn"    -> Text(<<"E", "I", "N", ":", " ", "1", "2", "-", "3", "4", "5", "6", "7", "8", "9">>)
       [] f = "document_type" -> Text(<<"W", "9">>)
       [] f = "street"        -> Text(<<"1", " ", " ", "E", "l", "m">>)
       [] f = "city"          -> Text(<<"A", "y", "e", "r">>)
       [] f = "state"         -> Text(<<"m", "a">>)
       [] f = "zip"           -> Text(<<" ", "0", "2", "1", "3", "4">>)
       [] OTHER               -> NoResponse]

\* Generator responses of a document that breaks five rules.
BadResponses ==
  [f \in AllFields |->
     CASE f = "ein_or_ssn" -> Text(<<"1", "2", "3", "4", "5">>)
       [] f = "state"      -> Text(<<"Z", "Z">>)
       [] f = "zip"        -> Text(<<"1", "2", "3", "4">>)
       [] OTHER            -> NoResponse]

\* The generator fails on one request.
RaisingResponses ==
  [f \in AllFields |-> IF f = "city" THEN [kind |-> "raise"] ELSE NoResponse]

LlmResponses == {GoodResponses, BadResponses, RaisingResponses}

\* One entry of the directory listing or of the file dialog's selection;
\* ext is the extension of the lower-cased name.
File(k, ext) == [dir |-> "input", name |-> k, ext |-> ext]

\* ---------------------------------------------------------------------- state
VARIABLES
  mode,                    \* "directory": process_directory; "worker": the GUI's thread
  listing,                 \* os.listdir(input_dir) / the files selected in the GUI
  dir_exists,              \* os.path.exists(input_dir)
  callback,                \* "none" | "given": process_directory's progress_callback
  log_writable,            \* whether crm.log can be opened for append
  files,                   \* the batch's file list
  pc,                      \* where the batch thread stands
  i,                       \* the loop index of enumerate(files)
  processed_documents,     \* the accumulating result list
  progress_calls,          \* the progress reports made so far
  start_time,              \* process_single_document's start_time
  stage_log,               \* the collaborator calls made so far: <<index, stage>>
  data,                    \* extracted_text / parsed_data / validated_data
  result,                  \* the outcome of the call in the loop body
  clock,                   \* datetime.now()
  crm_log,                 \* the lines of crm.log
  csv_written,             \* whether the CSV summary was written
  returned,                \* what process_directory handed to its caller
  interruption_requested,  \* QThread's interruption flag
  requested_at,            \* history: documents started when the flag was set (-1: not set)
  completed_emits,         \* the lists emitted with processing_completed
  error_emits,             \* the messages emitted with error_occurred
  process_btn,             \* the Process button is enabled
  stop_btn,                \* the Stop button is enabled
  delivered,               \* processing_completed signals the GUI has handled
  gui_documents,           \* PremiumDocumentProcessor.processed_documents
  statistics,              \* what get_processing_statistics returned
  parsed_data,             \* validator harness: the caller's record
  validated_data,          \* validator harness: the value validate_document returned
  candidate,               \* validator harness: a copy of the record as passed in
  passes,                  \* validator harness: calls made so far
  replayed,                \* validator harness: the result of a second call on the copy
  extractor_call,          \* extractor harness: the method of LLMParser that is exercised
  text,                    \* extractor harness: the text argument
  max_length,              \* extractor harness: _chunk_text's word budget
  chunks,                  \* extractor harness: what _chunk_text returned
  cleaned_text,            \* extractor harness: what _clean_response returned
  responses,               \* extractor harness: how the generator answers each field
  requests,                \* extractor harness: the fields the generator was asked for
  structured_data          \* extractor harness: the outcome of parse_document

batch_vars ==
  <<mode, listing, dir_exists, callback, log_writable, files, pc, i,
    processed_documents, progress_calls, start_time, stage_log, data, result,
    clock, crm_log, csv_written, returned, interruption_requested, requested_at,
    completed_emits, error_emits, process_btn, stop_btn, delivered, gui_documents,
    statistics>>

validator_vars == <<parsed_data, validated_data, candidate, passes, replayed>>

extractor_vars ==
  <<extractor_call, text, max_length, chunks, cleaned_text, responses, requests,
    structured_data>>

vars == <<batch_vars, validator_vars, extractor_vars>>

NoValue == [kind |-> "none"]

\* The extension of the k-th supported file of a listing.
ExtOf(k) ==
  CASE k % 4 = 1 -> ".pdf" [] k % 4 = 2 -> ".png" [] k % 4 = 3 -> ".jpg"
    [] OTHER -> ".jpeg"

SupportedListing(n) == [k \in 1..n |-> File(k, ExtOf(k))]

\* The validator harness at rest, while the batch runs.
ValidatorIdle ==
  /\ parsed_data = NoValue
  /\ validated_data = NoValue
  /\ candidate = NoValue
  /\ passes = 0
  /\ replayed = NoValue

\* The extractor harness at rest.
ExtractorIdle ==
  /\ extractor_call = "none"
  /\ text = <<>>
  /\ max_length = 512
  /\ chunks = NoValue
  /\ cleaned_text = NoValue
  /\ responses = NoValue
  /\ requests = <<>>
  /\ structured_data = NoValue

\* ----------------------------------------------------------------------- Init
\* A batch about to start: process_directory about to be called on a directory
\* (missing, or holding one unsupported file and up to MaxFiles supported
\* ones), or the GUI with up to MaxFiles files selected and Process enabled.
Init ==
  /\ mode \in {"directory", "worker"}
  /\ dir_exists \in BOOLEAN
  /\ callback \in {"none", "given"}
  /\ log_writable \in BOOLEAN
  /\ \E n \in 0..MaxFiles :
       listing = IF mode = "worker" THEN SupportedListing(n)
                 ELSE IF dir_exists THEN <<File(0, ".txt")>> \o SupportedListing(n)
                 ELSE <<>>
  /\ mode = "worker" => dir_exists /\ callback = "given" /\ listing # <<>>
  /\ ~dir_exists => callback = "given" /\ log_writable
  /\ files = IF mode = "worker" THEN listing ELSE <<>>
  /\ pc = "idle"
  /\ i = 0
  /\ processed_documents = <<>>
  /\ progress_calls = <<>>
  /\ start_time = 0
  /\ stage_log = <<>>
  /\ data = NoValue
  /\ result = NoValue
  /\ clock = 0
  /\ crm_log = <<>>
  /\ csv_written = FALSE
  /\ returned = NoValue
  /\ interruption_requested = FALSE
  /\ requested_at = -1
  /\ completed_emits = <<>>
  /\ error_emits = <<>>
  /\ process_btn = (mode = "worker")
  /\ stop_btn = FALSE
  /\ delivered = 0
  /\ gui_documents = <<>>
  /\ statistics = NoValue
  /\ ValidatorIdle
  /\ ExtractorIdle

\* -------------------------------------------------------------------- actions
\* The file of the current loop iteration (i counts from 0, as enumerate does).
CurrentFile == files[i + 1]

\* Where the loop goes after iteration i: the next file, or past the loop.
AfterLoopBody(next_i) ==
  IF next_i < Len(files) THEN "loop"
  ELSE IF mode = "worker" THEN "emit" ELSE "csv"

\* Mutant: a missing input directory is treated as an empty one.
ProcessDirectory_MissingIsEmpty ==
  /\ mode = "directory" /\ pc = "idle"
  /\ IF ~dir_exists
       THEN /\ returned' = [kind |-> "return", value |-> <<>>]
            /\ pc' = "done"
            /\ UNCHANGED files
     ELSE IF SupportedFiles(listing) = <<>>
       THEN /\ returned' = [kind |-> "return", value |-> <<>>]
            /\ pc' = "done"
            /\ UNCHANGED files
     ELSE /\ files' = SupportedFiles(listing)
          /\ pc' = "loop"
          /\ UNCHANGED returned
  /\ UNCHANGED <<mode, listing, dir_exists, callback, log_writable, i,
                 processed_documents, progress_calls, start_time, stage_log, data,
                 result, clock, crm_log, csv_written, interruption_requested, requested_at,
                 completed_emits, error_emits, process_btn, stop_btn, delivered,
                 gui_documents, validator_vars, extractor_vars, statistics>>

\* process_directory up to its loop: the existence check, the listing filter,
\* the early return on an empty batch.
ProcessDirectory ==
  /\ mode = "directory" /\ pc = "idle"
  /\ IF ~dir_exists
       THEN /\ returned' = [kind |-> "raise", error |-> "Input directory not found"]
            /\ pc' = "done"
            /\ UNCHANGED files
     ELSE IF SupportedFiles(listing) = <<>>
       THEN /\ returned' = [kind |-> "return", value |-> <<>>]
            /\ pc' = "done"
            /\ UNCHANGED files
     ELSE /\ files' = SupportedFiles(listing)
          /\ pc' = "loop"
          /\ UNCHANGED returned
  /\ UNCHANGED <<mode, listing, dir_exists, callback, log_writable, i,
                 processed_documents, progress_calls, start_time, stage_log, data,
                 result, clock, crm_log, csv_written, interruption_requested, requested_at,
                 completed_emits, error_emits, process_btn, stop_btn, delivered,
                 gui_documents, validator_vars, extractor_vars, statistics>>

\* PremiumDocumentProcessor.process_documents: the buttons, clear_results, and
\* the start of a new DocumentProcessorWorker on the selected files.
ProcessDocuments ==
  /\ mode = "worker" /\ pc = "idle" /\ process_btn
  /\ files # <<>>
  /\ process_btn' = FALSE
  /\ stop_btn' = TRUE
  /\ gui_documents' = <<>>
  /\ processed_documents' = <<>>
  /\ interruption_requested' = FALSE
  /\ requested_at' = -1
  /\ i' = 0
  /\ pc' = "loop"
  /\ UNCHANGED <<mode, listing, dir_exists, callback, log_writable, files,
                 progress_calls, start_time, stage_log, data, result, clock,
                 crm_log, csv_written, returned, completed_emits, error_emits,
                 delivered, validator_vars, extractor_vars, statistics>>

\* The head of a loop iteration: the progress report for file i, then the
\* entry into process_single_document (start_time).  In process_directory the
\* report is a call of the caller's callback, inside the loop's try.
StartDocument ==
  /\ pc = "loop" /\ i < Len(files)
  /\ \E raises \in BOOLEAN :
       /\ raises => mode = "directory" /\ callback = "given"
       /\ progress_calls' =
            IF callback = "given"
              THEN Append(progress_calls, ProgressReport(i, Len(files)))
              ELSE progress_calls
       /\ IF raises
            THEN /\ result' = [kind |-> "raise", error |-> "progress callback failure"]
                 /\ pc' = "append"
                 /\ UNCHANGED start_time
            ELSE /\ start_time' = clock
                 /\ pc' = "ocr"
                 /\ UNCHANGED result
  /\ UNCHANGED <<mode, listing, dir_exists, callback, log_writable, files, i,
                 processed_documents, stage_log, data, clock, crm_log, csv_written,
                 returned, interruption_requested, requested_at, completed_emits, error_emits,
                 process_btn, stop_btn, delivered, gui_documents, validator_vars, extractor_vars, statistics>>

stage_frame ==
  <<mode, listing, dir_exists, callback, log_writable, files, i,
    processed_documents, progress_calls, start_time, csv_written, returned,
    interruption_requested, requested_at, completed_emits, error_emits, process_btn, stop_btn,
    delivered, gui_documents, validator_vars, extractor_vars, statistics>>

\* Step 1 of process_single_document: ocr.extract_text, and the check that the
\* text is not blank.
OcrStage ==
  /\ pc = "ocr"
  /\ \E o \in OcrOutcomes :
       /\ stage_log' = Append(stage_log, <<i, "ocr">>)
       /\ clock' = clock + 1
       /\ IF o.kind = "raise"
            THEN /\ result' = HandleException(Basename(CurrentFile), o.error,
                                              start_time, clock')
                 /\ pc' = "append"
                 /\ UNCHANGED data
          ELSE IF IsBlank(o.value)
            THEN /\ result' = HandleException(Basename(CurrentFile),
                                              "No text could be extracted from document",
                                              start_time, clock')
                 /\ pc' = "append"
                 /\ data' = Local("extracted_text", o.value)
          ELSE /\ data' = Local("extracted_text", o.value)
               /\ pc' = NextStage("ocr")
               /\ UNCHANGED result
  /\ UNCHANGED <<stage_frame, crm_log>>

\* Step 2: llm.parse_document.
LlmStage ==
  /\ pc = "llm"
  /\ \E r \in LlmResponses :
       LET out == ParseDocument(r, Basename(CurrentFile))
       IN  /\ stage_log' = Append(stage_log, <<i, "llm">>)
           /\ clock' = clock + 1
           /\ IF out.kind = "raise"
                THEN /\ result' = HandleException(Basename(CurrentFile), out.error,
                                                  start_time, clock')
                     /\ pc' = "append"
                     /\ UNCHANGED data
                ELSE /\ data' = Local("parsed_data", out.value)
                     /\ pc' = NextStage("llm")
                     /\ UNCHANGED result
  /\ UNCHANGED <<stage_frame, crm_log>>

\* Step 3: validator.validate_document; raises stands for any exception that
\* escapes the call.
ValidateStage ==
  /\ pc = "validate"
  /\ \E raises \in BOOLEAN :
       /\ stage_log' = Append(stage_log, <<i, "validate">>)
       /\ clock' = clock + 1
       /\ IF raises
            THEN /\ result' = HandleException(Basename(CurrentFile), "validation failure",
                                              start_time, clock')
                 /\ pc' = "append"
                 /\ UNCHANGED data
            ELSE /\ data' = Local("validated_data", ValidateDocument(data.value, clock'))
                 /\ pc' = NextStage("validate")
                 /\ UNCHANGED result
  /\ UNCHANGED <<stage_frame, crm_log>>

\* Step 4: crm.submit_document (which appends to crm.log when it can), then
\* the assembly of the final result.
SubmitStage ==
  /\ pc = "submit"
  /\ \E json_ok \in BOOLEAN : \E lucky \in BOOLEAN :
       LET sub == SubmitDocument(data.value, json_ok, lucky, clock')
       IN  /\ stage_log' = Append(stage_log, <<i, "submit">>)
           /\ clock' = clock + 1
           /\ crm_log' = LogSubmission(crm_log, sub.entry, log_writable)
           /\ result' = [kind |-> "return",
                         value |-> FinalResult(data.value, sub.value,
                                               clock' - start_time)]
           /\ pc' = NextStage("submit")
           /\ UNCHANGED data
  /\ UNCHANGED stage_frame

\* The rest of the loop body.  A returned result is appended (the worker also
\* emits document_processed).  An exception that reaches the loop is turned
\* into an error document by process_directory, and ends run() through its
\* except branch, which emits error_occurred.
AfterDocument ==
  /\ pc = "append"
  /\ IF result.kind = "return"
       THEN /\ processed_documents' = Append(processed_documents, result.value)
            /\ i' = IF mode = "worker" THEN i ELSE i + 1
            /\ pc' = IF mode = "worker" THEN "check" ELSE AfterLoopBody(i + 1)
            /\ UNCHANGED error_emits
     ELSE IF mode = "directory"
       THEN /\ processed_documents' =
                 Append(processed_documents,
                        DirectoryErrorDocument(CurrentFile, result.error, clock))
            /\ i' = i + 1
            /\ pc' = AfterLoopBody(i + 1)
            /\ UNCHANGED error_emits
     ELSE /\ error_emits' = Append(error_emits, result.error)
          /\ pc' = "done"
          /\ UNCHANGED <<processed_documents, i>>
  /\ result' = NoValue
  /\ data' = NoValue
  /\ UNCHANGED <<mode, listing, dir_exists, callback, log_writable, files,
                 progress_calls, start_time, stage_log, clock, crm_log, csv_written,
                 returned, interruption_requested, requested_at, completed_emits, process_btn,
                 stop_btn, delivered, gui_documents, validator_vars, extractor_vars, statistics>>

\* Mutant: the loop also ends at the first failed document.
CheckInterruption_BreakOnFailure ==
  /\ mode = "worker" /\ pc = "check"
  /\ IF \/ interruption_requested
        \/ processed_documents[Len(processed_documents)].processing_status = "failed"
       THEN /\ pc' = "emit"
            /\ UNCHANGED i
       ELSE /\ i' = i + 1
            /\ pc' = AfterLoopBody(i + 1)
  /\ UNCHANGED <<mode, listing, dir_exists, callback, log_writable, files,
                 processed_documents, progress_calls, start_time, stage_log, data,
                 result, clock, crm_log, csv_written, returned,
                 interruption_requested, requested_at, completed_emits, error_emits, process_btn,
                 stop_btn, delivered, gui_documents, validator_vars, extractor_vars, statistics>>

\* The worker's check of isInterruptionRequested() at the end of the loop body.
CheckInterruption ==
  /\ mode = "worker" /\ pc = "check"
  /\ IF interruption_requested
       THEN /\ pc' = "emit"
            /\ UNCHANGED i
       ELSE /\ i' = i + 1
            /\ pc' = AfterLoopBody(i + 1)
  /\ UNCHANGED <<mode, listing, dir_exists, callback, log_writable, files,
                 processed_documents, progress_calls, start_time, stage_log, data,
                 result, clock, crm_log, csv_written, returned,
                 interruption_requested, requested_at, completed_emits, error_emits, process_btn,
                 stop_btn, delivered, gui_documents, validator_vars, extractor_vars, statistics>>

\* Mutant: an interrupted worker ends without emitting its results.
EmitCompleted_DropOnCancel ==
  /\ mode = "worker" /\ pc = "emit"
  /\ completed_emits' =
       IF interruption_requested THEN completed_emits
       ELSE Append(completed_emits, processed_documents)
  /\ pc' = "done"
  /\ UNCHANGED <<mode, listing, dir_exists, callback, log_writable, files, i,
                 processed_documents, progress_calls, start_time, stage_log, data,
                 result, clock, crm_log, csv_written, returned,
                 interruption_requested, requested_at, error_emits, process_btn, stop_btn,
                 delivered, gui_documents, validator_vars, extractor_vars, statistics>>

\* After the worker's loop: processing_completed.emit(processed_documents);
\* run() returns and the thread is no longer running.
EmitCompleted ==
  /\ mode = "worker" /\ pc = "emit"
  /\ completed_emits' = Append(completed_emits, processed_documents)
  /\ pc' = "done"
  /\ UNCHANGED <<mode, listing, dir_exists, callback, log_writable, files, i,
                 processed_documents, progress_calls, start_time, stage_log, data,
                 result, clock, crm_log, csv_written, returned,
                 interruption_requested, requested_at, error_emits, process_btn, stop_btn,
                 delivered, gui_documents, validator_vars, extractor_vars, statistics>>

\* After process_directory's loop: the CSV summary (a failure to write it is
\* logged and swallowed), then the return of the list.
FinishDirectory ==
  /\ mode = "directory" /\ pc = "csv"
  /\ \E csv_ok \in BOOLEAN : csv_written' = csv_ok
  /\ returned' = [kind |-> "return", value |-> processed_documents]
  /\ pc' = "done"
  /\ UNCHANGED <<mode, listing, dir_exists, callback, log_writable, files, i,
                 processed_documents, progress_calls, start_time, stage_log, data,
                 result, clock, crm_log, interruption_requested, requested_at, completed_emits,
                 error_emits, process_btn, stop_btn, delivered, gui_documents,
                 validator_vars, extractor_vars, statistics>>

\* stats = pipeline.get_processing_statistics(results), called with the list
\* process_directory returned; get_submission_stats reads crm.log.
GetProcessingStatistics ==
  /\ mode = "directory" /\ pc = "done"
  /\ returned.kind = "return"
  /\ statistics = NoValue
  /\ statistics' = Local("statistics", ProcessingStatistics(returned.value, crm_log))
  /\ UNCHANGED <<mode, listing, dir_exists, callback, log_writable, files, pc, i,
                 processed_documents, progress_calls, start_time, stage_log, data,
                 result, clock, crm_log, csv_written, returned,
                 interruption_requested, requested_at, completed_emits, error_emits,
                 process_btn, stop_btn, delivered, gui_documents, validator_vars,
                 extractor_vars>>

\* QThread.isRunning(): from start() until run() has returned.
IsRunning == pc \notin {"idle", "done"}

\* PremiumDocumentProcessor.stop_processing, a click on the enabled Stop
\* button: with a running worker it requests the interruption, waits for the
\* worker at most 3 seconds, and resets the buttons whether or not the worker
\* has finished; otherwise it does nothing.
StopProcessing ==
  /\ mode = "worker" /\ stop_btn
  /\ IsRunning
  /\ interruption_requested' = TRUE
  /\ requested_at' = Len(progress_calls)
  /\ process_btn' = TRUE
  /\ stop_btn' = FALSE
  /\ UNCHANGED <<mode, listing, dir_exists, callback, log_writable, files, pc, i,
                 processed_documents, progress_calls, start_time, stage_log, data,
                 result, clock, crm_log, csv_written, returned, completed_emits,
                 error_emits, delivered, gui_documents, validator_vars, extractor_vars, statistics>>

\* PremiumDocumentProcessor.processing_completed, the slot of the worker's
\* processing_completed signal, run by the GUI thread.
ProcessingCompleted ==
  /\ mode = "worker"
  /\ delivered < Len(completed_emits)
  /\ gui_documents' = completed_emits[delivered + 1]
  /\ delivered' = delivered + 1
  /\ process_btn' = TRUE
  /\ stop_btn' = FALSE
  /\ UNCHANGED <<mode, listing, dir_exists, callback, log_writable, files, pc, i,
                 processed_documents, progress_calls, start_time, stage_log, data,
                 result, clock, crm_log, csv_written, returned,
                 interruption_requested, requested_at, completed_emits, error_emits,
                 validator_vars, extractor_vars, statistics>>

Next ==
  \/ ProcessDirectory
  \/ ProcessDocuments
  \/ StartDocument
  \/ OcrStage
  \/ LlmStage
  \/ ValidateStage
  \/ SubmitStage
  \/ AfterDocument
  \/ CheckInterruption
  \/ EmitCompleted
  \/ FinishDirectory
  \/ GetProcessingStatistics
  \/ StopProcessing
  \/ ProcessingCompleted

Spec == Init /\ [][Next]_vars

\* ------------------------------------------------------ properties of the batch
\* The stages run for the file of loop index k, in the order they ran.
StagesOf(k) ==
  LET calls == SelectSeq(stage_log, LAMBDA e : e[1] = k)
  IN  [n \in 1..Len(calls) |-> calls[n][2]]

AllStages == <<"ocr", "llm", "validate", "submit">>

IsPrefix(a, b) == Len(a) <= Len(b) /\ SubSeq(b, 1, Len(a)) = a

InDocument == pc \in {"ocr", "llm", "validate", "submit", "append"}

\* The error messages a call can end with when its last stage was `stage`.
ErrorsOf(stage) ==
  CASE stage = "ocr"      -> {"OCR failure", "No text could be extracted from document"}
    [] stage = "llm"      -> {"LLM backend failure"}
    [] stage = "validate" -> {"validation failure"}
    [] OTHER              -> {}

LastStage(k) == StagesOf(k)[Len(StagesOf(k))]

\* C1: process_single_document never raises to its caller.  When the call for
\* the current file has ended, it has returned a result; if it ended before
\* the submission stage (a stage threw, or the text was blank) the result has
\* processing_status "failed" and carries the file's name, the error message
\* of the stage it ended in and the elapsed time.  The worker therefore never
\* emits error_occurred.
C1_SingleDocumentNeverRaises ==
  /\ error_emits = <<>>
  /\ (pc = "append" /\ StagesOf(i) # <<>>) =>
       /\ result.kind = "return"
       /\ LastStage(i) # "submit" =>
            /\ result.value.processing_status = "failed"
            /\ result.value.source_file = Basename(CurrentFile)
            /\ result.value.error \in ErrorsOf(LastStage(i))
            /\ result.value.processing_time_seconds = clock - start_time

C1_Witness ==
  /\ mode = "worker" /\ pc = "append"
  /\ StagesOf(i) = <<"ocr", "llm">>
  /\ result.kind = "return"
  /\ result.value.processing_status = "failed"
  /\ result.value.error = "LLM backend failure"

\* A result list with one result per file of the batch, in input order: the
\* k-th result names the k-th file, is "completed" when all four stages ran
\* for it and "failed" (with an error) otherwise, and every file was attempted.
OnePerFile(results) ==
  /\ Len(results) = Len(files)
  /\ \A k \in 1..Len(results) :
       /\ results[k].source_file = Basename(files[k])
       /\ results[k].processing_status =
            IF StagesOf(k - 1) = AllStages THEN "completed" ELSE "failed"
       /\ results[k].processing_status = "failed" => "error" \in DOMAIN results[k]
       /\ \/ StagesOf(k - 1) # <<>>
          \/ results[k].error = "progress callback failure"

\* C2: a batch of N files that runs to completion without cancellation hands
\* back exactly N results, one per file in input order, failed ones marked
\* "failed" and all others "completed"; a failure never stops the batch.
C2_OneResultPerFile ==
  /\ (mode = "directory" /\ pc = "done" /\ returned.kind = "return") =>
       OnePerFile(returned.value)
  /\ (mode = "worker" /\ pc = "done" /\ ~interruption_requested) =>
       /\ Len(completed_emits) = 1
       /\ OnePerFile(completed_emits[1])

C2_Witness ==
  /\ mode = "directory" /\ pc = "done"
  /\ returned.kind = "return"
  /\ Len(files) = 3
  /\ Len(returned.value) = 3
  /\ returned.value[1].processing_status = "completed"
  /\ returned.value[2].processing_status = "failed"
  /\ returned.value[2].error = "OCR failure"
  /\ returned.value[3].processing_status = "completed"

\* C3 (as claimed): once a cancellation request has been made, the worker
\* starts no further document.
C3_NoLaunchAfterRequest ==
  [][interruption_requested => progress_calls' = progress_calls]_vars

\* C4 (as claimed): a cancelled worker still ends by emitting
\* processing_completed exactly once, and the emitted list holds a result for
\* every document that was finished or in flight when the request was made,
\* and for no other document: it is that prefix of the input list.
C4_ResultsStartedAtRequest ==
  (mode = "worker" /\ pc = "done" /\ interruption_requested) =>
    /\ Len(completed_emits) = 1
    /\ Len(completed_emits[1]) = requested_at
    /\ \A k \in 1..requested_at :
         completed_emits[1][k].source_file = Basename(files[k])

\* The part of C4 the worker keeps in every interleaving: it emits
\* processing_completed exactly once, with a result for every document that
\* was started at any time and for no other, in input order.
C4_PartialResultsOnCancel ==
  /\ Len(completed_emits) <= 1
  /\ (mode = "worker" /\ pc = "done" /\ interruption_requested) =>
       /\ Len(completed_emits) = 1
       /\ Len(completed_emits[1]) = Len(progress_calls)
       /\ Len(completed_emits[1]) <= Len(files)
       /\ \A k \in 1..Len(completed_emits[1]) :
            /\ completed_emits[1][k].source_file = Basename(files[k])
            /\ StagesOf(k - 1) # <<>>
       /\ \A k \in (Len(completed_emits[1]) + 1)..Len(files) : StagesOf(k - 1) = <<>>

C4_Witness ==
  /\ mode = "worker" /\ pc = "done" /\ interruption_requested
  /\ Len(files) = 3
  /\ Len(completed_emits) = 1
  /\ Len(completed_emits[1]) = 2

\* C5: progress for a document is reported when the document is started and
\* before its result is appended; each report's count equals the number of
\* results accumulated when it is made, and its total is the number of files.
C5_ProgressAtStart ==
  callback = "given" =>
    /\ Len(progress_calls) =
         Len(processed_documents) + (IF InDocument THEN 1 ELSE 0)
    /\ \A k \in 1..Len(progress_calls) :
         /\ progress_calls[k].current = k - 1
         /\ progress_calls[k].total = Len(files)

C5_Witness ==
  /\ pc = "ocr"
  /\ Len(processed_documents) = 1
  /\ Len(progress_calls) = 2
  /\ progress_calls[2].current = 1

\* The batch has run to completion, uncancelled, with progress reporting.
CompletedRun ==
  /\ pc = "done" /\ callback = "given" /\ ~interruption_requested
  /\ files # <<>>
  /\ Len(processed_documents) = Len(files)

\* C6 (as claimed): over a completed batch of N files the progress callback
\* is called N times with strictly increasing counts, the last of them N.
C6_ProgressReachesTotal ==
  CompletedRun =>
    /\ Len(progress_calls) = Len(files)
    /\ \A k \in 1..(Len(progress_calls) - 1) :
         progress_calls[k].current < progress_calls[k + 1].current
    /\ progress_calls[Len(progress_calls)].current = Len(files)

\* C6 (amended): over a completed batch of N files the progress callback is
\* called N times with the counts 0, 1, ..., N-1 and the total N; the last
\* count is N-1.
C6_ProgressCountsFromZero ==
  CompletedRun =>
    /\ Len(progress_calls) = Len(files)
    /\ \A k \in 1..Len(progress_calls) :
         /\ progress_calls[k].current = k - 1
         /\ progress_calls[k].total = Len(files)
    /\ progress_calls[Len(progress_calls)].current = Len(files) - 1

C6_Witness ==
  /\ CompletedRun
  /\ Len(files) = 3
  /\ progress_calls[3].current = 2

\* C7: when the OCR text is empty or only whitespace the call returns a
\* failed result whose error says that no text could be extracted, and
\* neither the LLM, the validator nor the submitter is called for that
\* document: the LLM stage is only ever entered with non-blank text.
C7_BlankTextFailsEarly ==
  /\ (pc = "append" /\ data.kind = "extracted_text" /\ Strip(data.value) = <<>>) =>
       /\ result.kind = "return"
       /\ result.value.processing_status = "failed"
       /\ result.value.error = "No text could be extracted from document"
       /\ StagesOf(i) = <<"ocr">>
  /\ pc = "llm" => (data.kind = "extracted_text" /\ Strip(data.value) # <<>>)
  /\ \A k \in 1..Len(processed_documents) :
       ("error" \in DOMAIN processed_documents[k]
          /\ processed_documents[k].error = "No text could be extracted from document")
         => StagesOf(k - 1) = <<"ocr">>

C7_Witness ==
  /\ pc = "append"
  /\ data.kind = "extracted_text"
  /\ data.value # <<>>
  /\ Strip(data.value) = <<>>
  /\ result.value.processing_status = "failed"

\* C8: for every document the stages run in the order OCR, extraction,
\* validation, submission, each at most once and only after the earlier ones
\* succeeded (nothing is retried, no document is revisited), and a result
\* "completed" exists only after all four stages have run.
C8_StageOrder ==
  /\ \A k \in 0..MaxFiles : IsPrefix(StagesOf(k), AllStages)
  /\ \A n \in 1..(Len(stage_log) - 1) : stage_log[n][1] <= stage_log[n + 1][1]
  /\ \A n \in 1..Len(stage_log) : stage_log[n][1] <= i
  /\ pc \in {"ocr", "llm", "validate", "submit"} =>
       StagesOf(i) \o <<pc>> = SubSeq(AllStages, 1, Len(StagesOf(i)) + 1)
  /\ \A k \in 1..Len(processed_documents) :
       processed_documents[k].processing_status = "completed"
         => StagesOf(k - 1) = AllStages
  /\ (pc = "append" /\ result.kind = "return"
        /\ result.value.processing_status = "completed") => StagesOf(i) = AllStages

C8_Witness ==
  /\ Len(processed_documents) = 2
  /\ processed_documents[1].processing_status = "failed"
  /\ StagesOf(0) = <<"ocr", "llm", "validate">>
  /\ processed_documents[2].processing_status = "completed"
  /\ StagesOf(1) = AllStages

\* ------------------------------------------------------------ validator harness
\* Field values the candidate records are built from: for each rule a value
\* it accepts, one it rejects, and the empty string.
EinValues == {<<>>, <<"1", "2", "3", "-", "4", "5", "-", "6", "7", "8", "9">>, <<"1", "2", "3", "4", "5">>}
ZipValues == {<<>>, <<"0", "2", "1", "3", "4">>, <<"1", "2", "3", "4">>}
AmountValues == {<<>>, <<"$", "1", ",", "5", ".", "0">>, <<"n", "/", "a">>}
\* <<phone, email>>
ContactValues ==
  {<<<<>>, <<>>>>,
   <<<<"(", "6", "1", "7", ")", "5", "5", "5", "0", "1", "0", "0">>, <<"a", "@", "b", ".", "c", "o">>>>,
   <<<<"5", "5", "5">>, <<>>>>,
   <<<<>>, <<"a", "@", "b">>>>}
StateValues == {<<>>, <<"m", "a">>, <<"Z", "Z">>}
MerchantValues == {<<>>, <<" ">>, <<"A", "c", "m", "e">>}
DocumentTypeValues == {<<>>, <<"W", "9">>}
\* <<street, city>>
StreetCityValues == {<<<<>>, <<>>>>, <<<<"1", " ", "E", "l", "m">>, <<>>>>, <<<<"1", " ", "E", "l", "m">>, <<"A", "y", "e", "r">>>>}
\* Confidence in tenths; -1 stands for a record without the key.
ConfidenceValues == {-1, 0, 2, 7}

\* n issues left by an earlier stage.
ExistingIssues(n) == [k \in 1..n |-> Issue("Extraction issue", <<>>)]

Candidate(ein, zip, amount, contact, state, merchant, doctype, sc, n, conf) ==
  LET base == [merchant_name    |-> merchant,
               ein_or_ssn       |-> ein,
               document_type    |-> doctype,
               address          |-> [street |-> sc[1], city |-> sc[2],
                                     state |-> state, zip |-> zip],
               contact_info     |-> [phone |-> contact[1], email |-> contact[2]],
               requested_amount |-> amount,
               source_file      |-> 1,
               flagged_issues   |-> ExistingIssues(n)]
  IN  IF conf < 0 THEN base ELSE Put(base, "confidence_score", conf)

CandidateRecords ==
  {Candidate(ein, zip, amount, contact, state, merchant, doctype, sc, n, conf) :
     ein \in EinValues, zip \in ZipValues, amount \in AmountValues,
     contact \in ContactValues, state \in StateValues, merchant \in MerchantValues,
     doctype \in DocumentTypeValues, sc \in StreetCityValues,
     n \in 0..MaxExisting, conf \in ConfidenceValues}

\* No batch is running while the validator is exercised on its own.
BatchIdle ==
  /\ mode = "none"
  /\ listing = <<>>
  /\ dir_exists = TRUE
  /\ callback = "none"
  /\ log_writable = TRUE
  /\ files = <<>>
  /\ pc = "idle"
  /\ i = 0
  /\ processed_documents = <<>>
  /\ progress_calls = <<>>
  /\ start_time = 0
  /\ stage_log = <<>>
  /\ data = NoValue
  /\ result = NoValue
  /\ clock = 0
  /\ crm_log = <<>>
  /\ csv_written = FALSE
  /\ returned = NoValue
  /\ interruption_requested = FALSE
  /\ requested_at = -1
  /\ completed_emits = <<>>
  /\ error_emits = <<>>
  /\ process_btn = FALSE
  /\ stop_btn = FALSE
  /\ delivered = 0
  /\ gui_documents = <<>>
  /\ statistics = NoValue

\* A caller holding a candidate record, about to validate it.
InitValidator ==
  /\ BatchIdle
  /\ \E r \in CandidateRecords : parsed_data = Local("record", r)
  /\ validated_data = NoValue
  /\ candidate = NoValue
  /\ passes = 0
  /\ replayed = NoValue
  /\ ExtractorIdle

\* What a harness leaves alone: everything of the batch but the clock.
harness_frame ==
  <<mode, listing, dir_exists, callback, log_writable, files, pc, i,
    processed_documents, progress_calls, start_time, stage_log, data,
    result, crm_log, csv_written, returned, interruption_requested, requested_at,
    completed_emits, error_emits, process_btn, stop_btn, delivered,
    gui_documents, statistics>>

\* One call validated = validator.validate_document(parsed_data): the record
\* is updated in place and the same object is returned.  candidate keeps what
\* the record was when it was passed in.
ValidateCall ==
  /\ passes < MaxPasses
  /\ candidate' = parsed_data
  /\ clock' = clock + 1
  /\ parsed_data' = Local("record", ValidateDocument(parsed_data.value, clock'))
  /\ validated_data' = parsed_data'
  /\ passes' = passes + 1
  /\ replayed' = NoValue
  /\ UNCHANGED <<harness_frame, extractor_vars>>

\* A second call, made later on a copy of the record as it was passed to the
\* last call: replayed = validator.validate_document(copy.deepcopy(candidate)).
ValidateReplay ==
  /\ passes > 0
  /\ replayed = NoValue
  /\ clock' = clock + 1
  /\ replayed' = Local("record", ValidateDocument(candidate.value, clock'))
  /\ UNCHANGED <<harness_frame, parsed_data, validated_data, candidate, passes,
                 extractor_vars>>

NextValidator ==
  \/ ValidateCall
  \/ ValidateReplay

SpecValidator == InitValidator /\ [][NextValidator]_vars

\* -------------------------------------------------- properties of the validator
\* The issues the record held when it was passed in, and after the call.
IssuesBefore == Get(candidate.value, "flagged_issues", <<>>)
IssuesAfter == validated_data.value.flagged_issues

\* C9 (as claimed): validation_status is "failed" exactly when the record's
\* flagged_issues after validation is non-empty.
C9_FailedIffFlagged ==
  passes > 0 =>
    (validated_data.value.validation_status = "failed" <=> IssuesAfter # <<>>)

\* C9 (amended): validation_status "failed" implies a non-empty flagged_issues
\* list, and for a record that arrives without flagged issues the status is
\* "failed" exactly when the list is non-empty after validation; a record that
\* arrives with flagged issues and raises none in this pass is "passed".
C9_FailedImpliesFlagged ==
  passes > 0 =>
    /\ validated_data.value.validation_status \in {"passed", "failed"}
    /\ validated_data.value.validation_status = "failed" => IssuesAfter # <<>>
    /\ IssuesBefore = <<>> =>
         (validated_data.value.validation_status = "failed" <=> IssuesAfter # <<>>)
    /\ (IssuesBefore # <<>> /\ IssuesAfter = IssuesBefore) =>
         validated_data.value.validation_status = "passed"

C9_Witness ==
  /\ passes = 1
  /\ IssuesBefore # <<>>
  /\ IssuesAfter = IssuesBefore
  /\ validated_data.value.validation_status = "passed"

\* C10: validation_status is "failed" exactly when this pass raised at least
\* one new issue (the list grew), and requires_human_review is true exactly
\* when the merged list is non-empty.
C10_StatusFromNewIssues ==
  passes > 0 =>
    /\ validated_data.value.validation_status \in {"passed", "failed"}
    /\ validated_data.value.validation_status = "failed"
         <=> Len(IssuesAfter) > Len(IssuesBefore)
    /\ validated_data.value.requires_human_review <=> IssuesAfter # <<>>

C10_Witness ==
  /\ passes = 1
  /\ Len(IssuesBefore) = 1
  /\ Len(IssuesAfter) = 1
  /\ validated_data.value.validation_status = "passed"
  /\ validated_data.value.requires_human_review

\* The issues the last call added to the record.
NewIssues == SubSeq(IssuesAfter, Len(IssuesBefore) + 1, Len(IssuesAfter))

\* The confidence of a record, 0.5 when it has none (the code's default).
ConfidenceOf(record) == Get(record, "confidence_score", 5)

\* C11: validate_document never drops or reorders the issues a record arrives
\* with: the list after the call is the list before the call followed by the
\* issues of this pass, so the list before is a prefix of the list after.
C11_ExistingIssuesKept ==
  passes > 0 =>
    /\ IsPrefix(IssuesBefore, IssuesAfter)
    /\ IssuesAfter = IssuesBefore \o ValidationIssues(candidate.value)
    /\ \A k \in 1..Len(IssuesBefore) : IssuesAfter[k] = IssuesBefore[k]

C11_Witness ==
  /\ passes = 1
  /\ Len(IssuesBefore) = 1
  /\ Len(IssuesAfter) = 3
  /\ IssuesAfter[1].rule = "Extraction issue"
  /\ IssuesAfter[2].rule = "Invalid EIN/SSN format"

\* max(c - min(0.2 * n, 0.4), 0.1) in tenths, case by case.
ExpectedConfidence(c, n) ==
  LET reduced == IF n = 1 THEN c - 2 ELSE c - 4
  IN  IF reduced < 1 THEN 1 ELSE reduced

\* C12: a pass that raises n >= 1 new issues leaves the confidence
\* max(c - min(0.2 n, 0.4), 0.1) for the confidence c the record came with
\* (never below 0.1, never more than 0.4 below c); a pass that raises none
\* leaves the confidence as it was.
C12_ConfidencePenalty ==
  passes > 0 =>
    LET n     == Len(IssuesAfter) - Len(IssuesBefore)
        c     == ConfidenceOf(candidate.value)
        after == validated_data.value
    IN  /\ n >= 1 =>
             /\ "confidence_score" \in DOMAIN after
             /\ after.confidence_score = ExpectedConfidence(c, n)
             /\ after.confidence_score >= 1
             /\ c - after.confidence_score <= 4
        /\ n = 0 =>
             /\ "confidence_score" \in DOMAIN after
                  <=> "confidence_score" \in DOMAIN candidate.value
             /\ ConfidenceOf(after) = c

C12_Witness ==
  /\ passes = 1
  /\ Len(IssuesAfter) - Len(IssuesBefore) >= 3
  /\ ConfidenceOf(candidate.value) = 7
  /\ validated_data.value.confidence_score = 3

C14_InputLeftUnchanged ==
  passes > 0 =>
    /\ Get(parsed_data.value, "flagged_issues", <<>>) = IssuesBefore
    /\ ConfidenceOf(parsed_data.value) = ConfidenceOf(candidate.value)
    /\ DOMAIN parsed_data.value = DOMAIN candidate.value

\* The place of an issue in the rule table.
RuleRank(issue) ==
  CASE issue.rule = "Invalid EIN/SSN format"         -> 1
    [] issue.rule = "Invalid ZIP code"               -> 2
    [] issue.rule = "Invalid requested amount"       -> 3
    [] issue.rule = "Invalid phone format"           -> 4
    [] issue.rule = "Invalid email format"           -> 5
    [] issue.rule = "Invalid state"                  -> 6
    [] issue.rule = "Missing required field"
         /\ issue.value = <<"merchant_name">>        -> 7
    [] issue.rule = "Missing required field"
         /\ issue.value = <<"document_type">>        -> 8
    [] issue.rule = "Incomplete address information" -> 9
    [] OTHER                                         -> 0

\* The record of the claim: EIN/SSN '12345', ZIP '1234', state 'ZZ', and
\* every other field empty.
IsExampleRecord(record) ==
  /\ record.ein_or_ssn = <<"1", "2", "3", "4", "5">>
  /\ record.address = [street |-> <<>>, city |-> <<>>,
                       state |-> <<"Z", "Z">>, zip |-> <<"1", "2", "3", "4">>]
  /\ record.merchant_name = <<>>
  /\ record.document_type = <<>>
  /\ record.requested_amount = <<>>
  /\ record.contact_info = [phone |-> <<>>, email |-> <<>>]

FiveIssues ==
  <<Issue("Invalid EIN/SSN format", <<"1", "2", "3", "4", "5">>),
    Issue("Invalid ZIP code", <<"1", "2", "3", "4">>),
    Issue("Invalid state", <<"Z", "Z">>),
    Issue("Missing required field", <<"merchant_name">>),
    Issue("Missing required field", <<"document_type">>)>>

\* C15 (as claimed): the new issues of the example record are exactly the
\* five: invalid EIN/SSN, invalid ZIP, invalid state, missing merchant_name,
\* missing document_type.
C15_ExampleHasFiveIssues ==
  (passes > 0 /\ IsExampleRecord(candidate.value)) => NewIssues = FiveIssues

\* C15 (amended): the new issues come in rule-table order, each rule at most
\* once; the example record raises six issues, the five of the claim in that
\* order followed by "Incomplete address information" (its state and ZIP are
\* filled, its street and city are not), and its confidence goes from the
\* baseline 0.7 to 0.3.
C15_RuleTableOrder ==
  passes > 0 =>
    /\ \A k \in 1..Len(NewIssues) : RuleRank(NewIssues[k]) \in 1..9
    /\ \A k \in 1..(Len(NewIssues) - 1) :
         RuleRank(NewIssues[k]) < RuleRank(NewIssues[k + 1])
    /\ IsExampleRecord(candidate.value) =>
         /\ NewIssues =
              FiveIssues \o <<Issue("Incomplete address information", <<>>)>>
         /\ ConfidenceOf(candidate.value) = 7 =>
              validated_data.value.confidence_score = 3

C15_Witness ==
  /\ passes = 1
  /\ IsExampleRecord(candidate.value)
  /\ IssuesBefore = <<>>
  /\ Len(IssuesAfter) = 6
  /\ IssuesAfter[6].rule = "Incomplete address information"
  /\ ConfidenceOf(candidate.value) = 7
  /\ validated_data.value.confidence_score = 3

\* A record that satisfies every rule of the table: nine digits in the
\* EIN/SSN and five in the ZIP once the non-digits are removed, a state code
\* of the list, merchant_name and document_type non-empty after trimming, the
\* four address fields non-empty, and phone, e-mail and requested amount each
\* empty or well-formed.
SatisfiesEveryRule(record) ==
  /\ Len(SelectSeq(record.ein_or_ssn, IsDigit)) = 9
  /\ Len(SelectSeq(record.address.zip, IsDigit)) = 5
  /\ Strip(Upper(record.address.state)) \in valid_states
  /\ Strip(record.merchant_name) # <<>>
  /\ Strip(record.document_type) # <<>>
  /\ \A k \in {"street", "city", "state", "zip"} : record.address[k] # <<>>
  /\ \/ record.contact_info.phone = <<>>
     \/ Len(SelectSeq(record.contact_info.phone, IsDigit)) = 10
  /\ \/ record.contact_info.email = <<>>
     \/ EmailMatches(Strip(record.contact_info.email))
  /\ \/ record.requested_amount = <<>>
     \/ FloatParses(SelectSeq(record.requested_amount, IsDigitOrDot))

\* C16: a record that satisfies every rule raises no new issue, gets
\* validation_status "passed" and keeps its confidence_score; empty phone,
\* e-mail and requested amount raise no issue.
C16_CleanRecordPasses ==
  (passes > 0 /\ SatisfiesEveryRule(candidate.value)) =>
    /\ NewIssues = <<>>
    /\ IssuesAfter = IssuesBefore
    /\ validated_data.value.validation_status = "passed"
    /\ "confidence_score" \in DOMAIN validated_data.value
         <=> "confidence_score" \in DOMAIN candidate.value
    /\ ConfidenceOf(validated_data.value) = ConfidenceOf(candidate.value)

C16_Witness ==
  /\ passes = 1
  /\ SatisfiesEveryRule(candidate.value)
  /\ candidate.value.contact_info = [phone |-> <<>>, email |-> <<>>]
  /\ candidate.value.requested_amount = <<>>
  /\ Len(candidate.value.ein_or_ssn) = 11
  /\ validated_data.value.validation_status = "passed"
  /\ ConfidenceOf(candidate.value) = 7
  /\ validated_data.value.confidence_score = 7

\* C17: "Incomplete address information" is raised exactly when at least one
\* of street, city, state, zip is filled and at least one of them is empty;
\* four empty fields raise no address issue.
C17_AddressCompleteness ==
  passes > 0 =>
    LET address == candidate.value.address
        four    == {"street", "city", "state", "zip"}
    IN  (\E k \in 1..Len(NewIssues) :
           NewIssues[k].rule = "Incomplete address information")
          <=> /\ \E f \in four : address[f] # <<>>
              /\ \E f \in four : address[f] = <<>>

C17_Witness ==
  /\ passes = 1
  /\ candidate.value.address.street = <<>>
  /\ candidate.value.address.city = <<>>
  /\ candidate.value.address.state = <<"m", "a">>
  /\ candidate.value.address.zip = <<"0", "2", "1", "3", "4">>
  /\ NewIssues[Len(NewIssues)].rule = "Incomplete address information"

\* ------------------------------------------------------------ extractor harness
\* Paragraphs the texts are built from: empty, one word, two words, and three
\* words over two lines with a leading newline.
ParagraphValues ==
  {<<>>, <<"a">>, <<"a", " ", "b">>, <<"\n", "a", " ", " ", "b", "\n", "c">>}

RECURSIVE JoinParagraphs(_)
\* Paragraphs separated by a blank line.
JoinParagraphs(parts) ==
  IF Len(parts) = 1 THEN parts[1]
  ELSE parts[1] \o <<"\n", "\n">> \o JoinParagraphs(Tail(parts))

\* OCR texts of one to MaxParagraphs paragraphs.
ChunkTexts ==
  {JoinParagraphs(ps) : ps \in UNION {[1..n -> ParagraphValues] : n \in 1..MaxParagraphs}}

\* Word budgets: small ones that the texts exceed, and the default.
Budgets == (1..MaxBudget) \cup {512}

\* Raw completions: every string of up to MaxCompletionLen characters over a
\* letter, the colon, the blank and the newline.
Completions ==
  UNION {[1..n -> {"a", ":", " ", "\n"}] : n \in 0..MaxCompletionLen}

\* The responses of the passing document, but for one field.
WithResponse(f, r) == [g \in AllFields |-> IF g = f THEN r ELSE GoodResponses[g]]

\* Generator behaviours: for each field an empty response list, an exception,
\* or a text with a label echo, the other fields answering well.
ExtractorResponses ==
  LlmResponses
    \cup {WithResponse(f, r) :
            f \in AllFields,
            r \in {NoResponse, [kind |-> "raise"],
                   Text(<<"I", "s", ":", " ", "x", " ", " ", "y">>)}}

\* A caller about to exercise one method of LLMParser on one input.
InitExtractor ==
  /\ BatchIdle
  /\ ValidatorIdle
  /\ extractor_call \in {"_chunk_text", "_clean_response", "parse_document"}
  /\ text \in CASE extractor_call = "_chunk_text"     -> ChunkTexts
                [] extractor_call = "_clean_response" -> Completions
                [] OTHER                              -> {<<"A", "c", "m", "e">>}
  /\ max_length \in IF extractor_call = "_chunk_text" THEN Budgets ELSE {512}
  /\ responses \in IF extractor_call = "parse_document"
                     THEN {Local("responses", r) : r \in ExtractorResponses}
                     ELSE {NoValue}
  /\ chunks = NoValue
  /\ cleaned_text = NoValue
  /\ requests = <<>>
  /\ structured_data = NoValue

\* chunks = self._chunk_text(text, max_length)
ChunkTextCall ==
  /\ extractor_call = "_chunk_text"
  /\ chunks = NoValue
  /\ chunks' = Local("chunks", ChunkText(text, max_length))
  /\ UNCHANGED <<harness_frame, clock, validator_vars, extractor_call, text,
                 max_length, cleaned_text, responses, requests, structured_data>>

\* cleaned = self._clean_response(text)
CleanResponseCall ==
  /\ extractor_call = "_clean_response"
  /\ cleaned_text = NoValue
  /\ cleaned_text' = Local("cleaned_text", CleanResponse(text))
  /\ UNCHANGED <<harness_frame, clock, validator_vars, extractor_call, text,
                 max_length, chunks, responses, requests, structured_data>>

\* structured_data = llm.parse_document(text, filename): the text is chunked
\* with the default budget, then the generator is asked field by field.
ParseDocumentCall ==
  /\ extractor_call = "parse_document"
  /\ structured_data = NoValue
  /\ chunks' = Local("chunks", ChunkText(text, max_length))
  /\ requests' = RequestedFields(responses.value)
  /\ structured_data' = ParseDocument(responses.value, 1)
  /\ UNCHANGED <<harness_frame, clock, validator_vars, extractor_call, text,
                 max_length, cleaned_text, responses>>

NextExtractor ==
  \/ ChunkTextCall
  \/ CleanResponseCall
  \/ ParseDocumentCall

SpecExtractor == InitExtractor /\ [][NextExtractor]_vars

\* -------------------------------------------------- properties of the extractor
\* The value a candidate record holds for one of the 14 fields.
FieldOf(record, f) ==
  IF f \in Range(address_fields) THEN record.address[f]
  ELSE IF f \in Range(contact_fields) THEN record.contact_info[f]
  ELSE IF f \in Range(business_fields) THEN record.business_info[f]
  ELSE record[f]

ParseEnded == extractor_call = "parse_document" /\ structured_data # NoValue

\* C18 (as claimed): when the completion call of a field throws or returns
\* nothing, parse_document still asks for every remaining field and returns a
\* candidate record in which that field is the empty string.
C18_FieldFailureDegrades ==
  ParseEnded =>
    /\ structured_data.kind = "return"
    /\ requests = FieldOrder
    /\ \A f \in AllFields :
         responses.value[f].kind \in {"raise", "empty"}
           => FieldOf(structured_data.value, f) = <<>>

\* The part of C18 the code keeps: an empty response list leaves its field
\* the empty string and the other fields are still requested; a call that
\* throws ends parse_document with that exception, after which no further
\* field is requested.
C18_EmptyResponseDegrades ==
  ParseEnded =>
    IF \E f \in AllFields : responses.value[f].kind = "raise"
      THEN /\ structured_data.kind = "raise"
           /\ responses.value[requests[Len(requests)]].kind = "raise"
      ELSE /\ structured_data.kind = "return"
           /\ requests = FieldOrder
           /\ \A f \in AllFields :
                responses.value[f].kind = "empty"
                  => FieldOf(structured_data.value, f) = <<>>

RECURSIVE Flatten(_)
\* The concatenation of a sequence of sequences.
Flatten(seqs) == IF seqs = <<>> THEN <<>> ELSE Head(seqs) \o Flatten(Tail(seqs))

\* C19: _chunk_text cuts only between paragraphs.  Every chunk is a run of
\* whole consecutive paragraphs joined by blanks, the runs taken in order make
\* up the paragraph list, each paragraph once; a chunk with more words than
\* the budget is a single paragraph; a paragraph with more words than the
\* budget is a chunk by itself.
C19_ChunksAtParagraphBoundaries ==
  (extractor_call = "_chunk_text" /\ chunks # NoValue) =>
    LET paragraphs == SplitParagraphs(text)
        groups     == ChunkParagraphs(text, max_length)
        out        == chunks.value
    IN  /\ Flatten(groups) = paragraphs
        /\ Len(out) = Len(groups)
        /\ \A k \in 1..Len(out) :
             /\ out[k] = JoinWithSpace(groups[k])
             /\ WordCount(out[k]) > max_length => Len(groups[k]) = 1
        /\ \A p \in 1..Len(paragraphs) :
             WordCount(paragraphs[p]) > max_length =>
               \E k \in 1..Len(out) :
                 /\ Len(Flatten(SubSeq(groups, 1, k - 1))) = p - 1
                 /\ groups[k] = <<paragraphs[p]>>
                 /\ out[k] = paragraphs[p]

C19_Witness ==
  /\ extractor_call = "_chunk_text" /\ chunks # NoValue
  /\ max_length = 2
  /\ Len(SplitParagraphs(text)) = 3
  /\ Len(chunks.value) = 2
  /\ chunks.value[1] = <<"a", " ", "a">>
  /\ WordCount(chunks.value[2]) = 3

\* text.split(":", 1)[-1]: what follows the first colon.
AfterFirstColon(raw) ==
  LET colons == {k \in 1..Len(raw) : raw[k] = ":"}
  IN  IF colons = {} THEN raw
      ELSE SubSeq(raw, (CHOOSE k \in colons : \A j \in colons : k <= j) + 1, Len(raw))

\* C20 (as claimed): _clean_response keeps everything after the first colon
\* of the raw completion, later colons included, collapses each run of
\* whitespace to one blank and trims both ends; without a colon the
\* completion is only whitespace-normalised.
C20_KeepsAfterFirstColon ==
  (extractor_call = "_clean_response" /\ cleaned_text # NoValue) =>
    cleaned_text.value = Strip(CollapseWhitespace(AfterFirstColon(text)))

\* ------------------------------------------------- properties of the submission
\* The results so far that carry a submission outcome.
HasOutcome(doc) == "submission_result" \in DOMAIN doc

\* C21 (as claimed): the status of every submission outcome stored as a
\* document's submission_result is one of accepted, rejected, pending_review,
\* failed.
C21_OutcomeStatusInEnum ==
  \A k \in 1..Len(processed_documents) :
    HasOutcome(processed_documents[k]) =>
      processed_documents[k].submission_result.status
        \in {"accepted", "rejected", "pending_review", "failed"}

\* The CRM answers a submission can carry that are not an acceptance.
NotAccepted(outcome) ==
  \/ outcome.status = "failed"
  \/ outcome.crm_response.status \in {"rejected", "failed"}

\* C22: a submission that is rejected, comes back failed, or fails inside
\* submit_document with an exception is not fatal: the call hands back an
\* outcome, the document's result is "completed" with that outcome recorded
\* in it, and the batch goes on to the next document: an uncancelled batch
\* that has ended holds a result for every file.
C22_SubmissionFailureNotFatal ==
  /\ (pc = "append" /\ StagesOf(i) = AllStages) =>
       /\ result.kind = "return"
       /\ result.value.processing_status = "completed"
       /\ HasOutcome(result.value)
       /\ result.value.submission_result.status \in {"success", "failed"}
  /\ \A k \in 1..Len(processed_documents) :
       StagesOf(k - 1) = AllStages =>
         /\ HasOutcome(processed_documents[k])
         /\ processed_documents[k].processing_status = "completed"
  /\ \A k \in 1..Len(processed_documents) :
       (HasOutcome(processed_documents[k])
          /\ NotAccepted(processed_documents[k].submission_result)
          /\ k < Len(files) /\ pc = "done" /\ ~interruption_requested)
         => Len(processed_documents) = Len(files)

C22_Witness ==
  /\ pc = "done" /\ ~interruption_requested
  /\ Len(files) = 3
  /\ Len(processed_documents) = 3
  /\ HasOutcome(processed_documents[1])
  /\ processed_documents[1].submission_result.status = "failed"
  /\ processed_documents[1].processing_status = "completed"
  /\ HasOutcome(processed_documents[2])
  /\ processed_documents[2].submission_result.status = "success"
  /\ processed_documents[2].submission_result.crm_response.status = "rejected"
  /\ processed_documents[2].processing_status = "completed"

\* ------------------------------------------------- properties of the statistics
\* The sum of f over a finite set of indices.
RECURSIVE SumOver(_, _)
SumOver(indices, f) ==
  IF indices = {} THEN 0
  ELSE LET k == CHOOSE x \in indices : TRUE
       IN  f[k] + SumOver(indices \ {k}, f)

\* C23: for a non-empty result list, successful + failed = total,
\* success_rate is successful / total, the average processing time is the sum
\* of processing_time_seconds over all results, failed ones included, divided
\* by total, and the validation statistics (total_documents, pass rate,
\* average confidence) are taken over exactly the "completed" results.
C23_BatchStatistics ==
  (statistics # NoValue /\ returned.value # <<>>) =>
    LET docs      == returned.value
        all       == 1..Len(docs)
        completed == {k \in all : docs[k].processing_status = "completed"}
        passed    == {k \in completed : docs[k].validation_status = "passed"}
        times     == [k \in all |-> IF "processing_time_seconds" \in DOMAIN docs[k]
                                      THEN docs[k].processing_time_seconds ELSE 0]
        scores    == [k \in all |-> IF "confidence_score" \in DOMAIN docs[k]
                                      THEN docs[k].confidence_score ELSE 0]
        p         == statistics.value.processing
        v         == statistics.value.validation
    IN  /\ p.total_documents = Len(docs)
        /\ p.successful + p.failed = p.total_documents
        /\ p.successful = Cardinality(completed)
        /\ p.success_rate = Ratio(p.successful, p.total_documents)
        /\ p.average_processing_time = Ratio(SumOver(all, times), Len(docs))
        /\ IF completed = {} THEN DOMAIN v = {}
           ELSE /\ v.total_documents = Cardinality(completed)
                /\ v.validation_passed = Cardinality(passed)
                /\ v.pass_rate = Ratio(Cardinality(passed), Cardinality(completed))
                /\ v.average_confidence =
                     Ratio(SumOver(completed, scores), Cardinality(completed))

C23_Witness ==
  /\ statistics # NoValue
  /\ Len(returned.value) = 3
  /\ returned.value[1].processing_status = "failed"
  /\ "processing_time_seconds" \in DOMAIN returned.value[1]
  /\ returned.value[1].processing_time_seconds = 2
  /\ statistics.value.processing.successful = 2
  /\ statistics.value.processing.failed = 1
  /\ statistics.value.processing.average_processing_time.den = 3
  /\ statistics.value.processing.average_processing_time.num = 10
  /\ statistics.value.validation.total_documents = 2
  /\ statistics.value.validation.validation_passed = 1

\* ------------------------------------------ further properties of the batch
\* C24: when the input directory does not exist, process_directory ends by
\* raising to its caller: no document is processed, the progress callback is
\* never called, no result list is returned and no CSV summary is written.
C24_MissingDirectoryFailsBatch ==
  (mode = "directory" /\ ~dir_exists) =>
    /\ pc \in {"idle", "done"}
    /\ stage_log = <<>>
    /\ progress_calls = <<>>
    /\ processed_documents = <<>>
    /\ crm_log = <<>>
    /\ ~csv_written
    /\ statistics = NoValue
    /\ pc = "done" =>
         /\ returned.kind = "raise"
         /\ returned.error = "Input directory not found"

C24_Witness ==
  /\ mode = "directory" /\ ~dir_exists
  /\ callback = "given"
  /\ pc = "done"
  /\ returned.kind = "raise"
  /\ progress_calls = <<>>

\* The submit_document calls made so far.
SubmitCalls == SelectSeq(stage_log, LAMBDA e : e[2] = "submit")

\* The outcome a journal entry records, as the document's result carries it.
JournalledOutcome(outcome) ==
  IF outcome.status = "success" THEN outcome.crm_response ELSE outcome

\* C25: the submission journal only grows by appending.  It holds one entry
\* for every submit_document call made while it is writable (whether the
\* call succeeded or went through its exception path) and none otherwise;
\* the k-th entry stays the entry of the k-th call: it names that call's file
\* and outcome, and the entries' timestamps rise.
C25_JournalAppendOnly ==
  /\ Len(crm_log) = IF log_writable THEN Len(SubmitCalls) ELSE 0
  /\ \A k \in 1..Len(crm_log) :
       /\ crm_log[k].source_file = Basename(files[SubmitCalls[k][1] + 1])
       /\ k > 1 => crm_log[k - 1].timestamp < crm_log[k].timestamp
       /\ SubmitCalls[k][1] + 1 <= Len(processed_documents) =>
            crm_log[k].submission_result =
              JournalledOutcome(
                processed_documents[SubmitCalls[k][1] + 1].submission_result)

C25_Witness ==
  /\ log_writable
  /\ Len(SubmitCalls) = 2
  /\ Len(crm_log) = 2
  /\ Len(processed_documents) = 3
  /\ crm_log[1].submission_result.status = "failed"
  /\ "error" \in DOMAIN crm_log[1].submission_result
  /\ crm_log[2].submission_result.status = "accepted"

\* C26 (as claimed): whenever a DocumentProcessorWorker is running, the
\* Process button is disabled, so that no second batch can be started.
C26_ProcessDisabledWhileRunning ==
  (mode = "worker" /\ IsRunning) => ~process_btn

\* C27: in the pipeline (extractor confidence 0.7, validation, mock
\* submission) a record with validation_status "failed" is always answered
\* "rejected" by the CRM, never "accepted"; "pending_review" is never
\* answered, since a record that passed keeps its confidence of 0.7.
C27_FailedRejectedNoPending ==
  \A k \in 1..Len(processed_documents) :
    LET doc == processed_documents[k]
    IN  HasOutcome(doc) =>
          /\ doc.validation_status \in {"passed", "failed"}
          /\ doc.validation_status = "passed" => doc.confidence_score = 7
          /\ doc.submission_result.status = "success" =>
               LET crm == doc.submission_result.crm_response.status
               IN  /\ crm # "pending_review"
                   /\ doc.validation_status = "failed" => crm = "rejected"
                   /\ doc.validation_status = "passed" => crm \in {"accepted", "failed"}

C27_Witness ==
  /\ Len(processed_documents) = 2
  /\ HasOutcome(processed_documents[1])
  /\ processed_documents[1].validation_status = "failed"
  /\ processed_documents[1].confidence_score = 3
  /\ processed_documents[1].submission_result.status = "success"
  /\ processed_documents[1].submission_result.crm_response.status = "rejected"
  /\ HasOutcome(processed_documents[2])
  /\ processed_documents[2].validation_status = "passed"
  /\ processed_documents[2].submission_result.status = "success"
  /\ processed_documents[2].submission_result.crm_response.status = "accepted"

\* ------------------------------------------ further properties of the validator
\* C28: a record that validate_document marks "passed" has nine digits in
\* its EIN/SSN and five in its ZIP, a merchant_name and a document_type that
\* are not empty, and four non-empty address fields; a record whose address
\* is entirely empty is never "passed".
C28_PassedImpliesComplete ==
  (passes > 0 /\ validated_data.value.validation_status = "passed") =>
    LET record == candidate.value
    IN  /\ Len(SelectSeq(record.ein_or_ssn, IsDigit)) = 9
        /\ Len(SelectSeq(record.address.zip, IsDigit)) = 5
        /\ record.merchant_name # <<>>
        /\ record.document_type # <<>>
        /\ \A f \in {"street", "city", "state", "zip"} : record.address[f] # <<>>

C28_Witness ==
  /\ passes = 1
  /\ validated_data.value.validation_status = "passed"
  /\ IssuesBefore # <<>>
  /\ candidate.value.contact_info.phone # <<>>
  /\ Len(candidate.value.address.zip) = 5
  /\ candidate.value.address.city = <<"A", "y", "e", "r">>

C30_FirstChunkHoldsFirstParagraph ==
  (extractor_call = "_chunk_text" /\ chunks # NoValue) =>
    LET paragraphs == SplitParagraphs(text)
    IN  /\ Len(chunks.value) >= 1
        /\ (\E p \in 1..Len(paragraphs) : paragraphs[p] # <<>>) =>
             /\ chunks.value[1] # <<>>
             /\ IsPrefix(paragraphs[1], chunks.value[1])

\* The part of C30 the code keeps: there is always a first chunk; it begins
\* with the first paragraph whenever that paragraph is within the budget.
C30_AtLeastOneChunk ==
  (extractor_call \in {"_chunk_text", "parse_document"} /\ chunks # NoValue) =>
    LET paragraphs == SplitParagraphs(text)
    IN  /\ Len(chunks.value) >= 1
        /\ WordCount(paragraphs[1]) <= max_length =>
             IsPrefix(paragraphs[1], chunks.value[1])
        /\ WordCount(paragraphs[1]) > max_length => chunks.value[1] = <<>>
====
